---- MODULE Spec2Model ----
(***************************************************************************)
(* The execution engine of rbfi (src/src/main.rs): InterpreterContext, its *)
(* checked cell operations, the dispatch loop `execute` and the re-run     *)
(* entry point `execute_from_start`.                                       *)
(*                                                                         *)
(* One action is one iteration of the `loop` of `execute` (lines 101-134): *)
(* the `match` on the byte under the cursor, then the cursor increment and *)
(* the end-of-script test.                                                 *)
(*                                                                         *)
(* usize values (mem_cell_index, script_cursor, stack entries) are held by *)
(* their two's-complement representative: a value n >= 0 is itself, a      *)
(* value n < 0 stands for 2^w + n (w the width of usize), the value a      *)
(* wrapping subtraction below zero produces.  Comparisons are the unsigned *)
(* ones (UsizeGe).  The arithmetic `+= 1`, `-= 1`, `- 1` on usize panics   *)
(* when the build has overflow checks (rustc's debug profile) and wraps    *)
(* otherwise (release profile): overflow_checks records which build runs.  *)
(***************************************************************************)
EXTENDS Integers, Sequences, FiniteSets, TLC

VARIABLES
    memory,           \* InterpreterContext.memory : [i8; MAX_MEM_CELL_COUNT]
    mem_cell_index,   \* InterpreterContext.mem_cell_index : usize
    cycle_stack,      \* InterpreterContext.cycle_stack : Vec<usize>
    script_cursor,    \* InterpreterContext.script_cursor : usize
    script,           \* the `script` argument of the run in progress
    status,           \* "Idle" | "Running" | "Succeeded" | "Failed" | "Panicked"
    error,            \* the ExecutionError returned by a failed run
    overflow_checks,  \* TRUE: arithmetic overflow panics; FALSE: it wraps
    stdout,           \* the characters printed so far (code points 0..255)
    stdin_taken,      \* the number of bytes taken from standard input
    runs,             \* the number of execute_from_start calls so far
    stdin_last,       \* what the last read of standard input gave: Option<u8>
    ref,              \* the reference interpreter run beside the engine
    twin              \* a fresh InterpreterContext run beside a repeated run

vars == <<memory, mem_cell_index, cycle_stack, script_cursor, script, status,
          error, overflow_checks, stdout, stdin_taken, runs, stdin_last, ref, twin>>

----------------------------------------------------------------------------
(* Program constants *)

MAX_MEM_CELL_COUNT == 1024

I8_MAX == 127

I8_MIN == -128

U8_MAX == 255

(* Bounds of the model *)

MaxLen == 3

MaxLoopLen == 6

RampSlack == 1

MaxIn == 2

MaxOut == 3

MaxRuns == 2

----------------------------------------------------------------------------
(* Scripts *)

Instructions == {">", "<", "+", "-", ".", ",", "[", "]"}

\* "x" stands for any byte that is none of the eight instructions.
Alphabet == Instructions \cup {"x"}

LoopAlphabet == {"+", "-", "[", "]"}

CellOps == {"+", "-", ".", ",", "["}

Strings(A, n) == UNION {[1..k -> A] : k \in 0..n}

Rep(c, n) == [i \in 1..n |-> c]

\* `+`^a `-`^b and `-`^a `+`^b around the ends of the i8 range.
RampScripts ==
    {Rep("+", a) \o Rep("-", b) :
        a \in (I8_MAX - RampSlack)..(I8_MAX + 1 + RampSlack), b \in 0..(RampSlack + 1)}
    \cup
    {Rep("-", a) \o Rep("+", b) :
        a \in (-I8_MIN - RampSlack)..(-I8_MIN + 1 + RampSlack), b \in 0..(RampSlack + 1)}

\* `>` up to the end of the tape, then one cell operation.
FarScripts ==
    {Rep(">", n) \o <<c>> :
        n \in (MAX_MEM_CELL_COUNT - 1)..MAX_MEM_CELL_COUNT, c \in CellOps}

Scripts ==
    Strings(Alphabet, MaxLen) \cup Strings(LoopAlphabet, MaxLoopLen)
        \cup RampScripts \cup FarScripts

\* The scripts a used instance is run on again: the same one, or a lone bracket.
RerunScripts(s) == {s} \cup {<<"[">>, <<"]">>}

\* script.as_bytes()[i], i counted from 0 as in the source
ByteAt(s, i) == s[i + 1]

----------------------------------------------------------------------------
(* usize *)

\* a >= b on usize, on two's-complement representatives
UsizeGe(a, b) == IF (a < 0) = (b < 0) THEN a >= b ELSE a < 0

----------------------------------------------------------------------------
(* Standard input and output *)

\* the bytes standard input may hold
InputBytes == {0, 65, 127, 128, 255}

\* Option<T>
Some(x) == [some |-> TRUE, value |-> x]

None == [some |-> FALSE, value |-> 0]

\* a conversion that saturates: i8::try_from(byte).unwrap_or(i8::MAX)
AsI8_saturating(b) == IF b >= 128 THEN I8_MAX ELSE b

\* byte as i8
AsI8(b) == IF b >= 128 THEN b - 256 ELSE b

\* cell as u8 as char
AsU8(v) == IF v < 0 THEN v + 256 ELSE v

\* io::stdin().bytes().next().and_then(|result| result.ok()) over a stream that
\* holds the bytes of `bytes`: Some(byte), or None at end of stream or on a
\* read failure
stdin_next(bytes) == {Some(b) : b \in bytes} \cup {None}

\* the bytes the stream (of at most MaxIn bytes) can hold next
StdinBytes(taken) == IF taken < MaxIn THEN InputBytes ELSE {}

\* .map(|byte| byte as i8)
map_as_i8(r) == IF r.some THEN Some(AsI8(r.value)) ELSE None

\* What get_one_byte_from_stdin can return once `taken` bytes have been taken:
\* Some(byte as i8) while the stream holds a byte, None at end of stream or on
\* a read failure.
get_one_byte_from_stdin(taken) == {map_as_i8(r) : r \in stdin_next(StdinBytes(taken))}

----------------------------------------------------------------------------
(* Errors *)

NoError == [kind |-> "NoError"]

\* a constructor that fills the two fields the other way round
mem_cell_err_swapped(kind, idx, pos) ==
    [kind |-> kind, cell_index |-> pos, script_pos |-> idx]

mem_cell_err(kind, idx, pos) == [kind |-> kind, cell_index |-> idx, script_pos |-> pos]

pos_err(kind, pos) == [kind |-> kind, script_pos |-> pos]

----------------------------------------------------------------------------
(* The tape store.  `memory` is [i8; MAX_MEM_CELL_COUNT], all zero at      *)
(* construction.  It is held as the function from the indices of the cells *)
(* that hold a non-zero value to that value: every other cell of           *)
(* 0 .. MAX_MEM_CELL_COUNT - 1 holds 0.  Indexing the array outside that   *)
(* range panics in Rust (InTape is what the index expression checks).      *)
(* Each operation yields the error it returns (NoError for Ok) and the     *)
(* memory it leaves.                                                       *)

\* [0; MAX_MEM_CELL_COUNT]
ZeroTape == [i \in {} |-> 0]

\* the bounds check of the index expression self.memory[idx]
InTape(idx) == idx \in 0..(MAX_MEM_CELL_COUNT - 1)

\* self.memory[idx]
Cell(mem, idx) == IF idx \in DOMAIN mem THEN mem[idx] ELSE 0

\* self.memory[idx] = v
Store(mem, idx, v) ==
    IF v = 0 THEN [i \in DOMAIN mem \ {idx} |-> mem[i]]
    ELSE [i \in DOMAIN mem \cup {idx} |-> IF i = idx THEN v ELSE mem[i]]

IndexPanic == [kind |-> "PanicIndexOutOfBounds"]

check_out_of_bounds_access(idx, pos) ==
    IF UsizeGe(idx, MAX_MEM_CELL_COUNT)
    THEN mem_cell_err("MemCellAccessOutOfBounds", idx, pos)
    ELSE NoError

\* wrapping_add before the range test: the cell is written, then the error returned
inc_checked_store_first(mem, idx, pos) ==
    LET oob == check_out_of_bounds_access(idx, pos) IN
    IF oob.kind # "NoError" THEN [err |-> oob, memory |-> mem]
    ELSE IF ~InTape(idx) THEN [err |-> IndexPanic, memory |-> mem]
    ELSE IF Cell(mem, idx) + 1 > I8_MAX
         THEN [err |-> mem_cell_err("MemCellValueOverflow", idx, pos),
               memory |-> Store(mem, idx, I8_MIN)]
         ELSE [err |-> NoError, memory |-> Store(mem, idx, Cell(mem, idx) + 1)]

inc_checked(mem, idx, pos) ==
    LET oob == check_out_of_bounds_access(idx, pos) IN
    IF oob.kind # "NoError" THEN [err |-> oob, memory |-> mem]
    ELSE IF ~InTape(idx) THEN [err |-> IndexPanic, memory |-> mem]
    ELSE IF Cell(mem, idx) + 1 > I8_MAX
         THEN [err |-> mem_cell_err("MemCellValueOverflow", idx, pos), memory |-> mem]
         ELSE [err |-> NoError, memory |-> Store(mem, idx, Cell(mem, idx) + 1)]

\* a dec_checked that writes the first cell of the tape, not the current one
dec_checked_first_cell(mem, idx, pos) ==
    LET oob == check_out_of_bounds_access(idx, pos) IN
    IF oob.kind # "NoError" THEN [err |-> oob, memory |-> mem]
    ELSE IF ~InTape(idx) THEN [err |-> IndexPanic, memory |-> mem]
    ELSE IF Cell(mem, idx) - 1 < I8_MIN
         THEN [err |-> mem_cell_err("MemCellValueUnderflow", idx, pos), memory |-> mem]
         ELSE [err |-> NoError, memory |-> Store(mem, 0, Cell(mem, idx) - 1)]

dec_checked(mem, idx, pos) ==
    LET oob == check_out_of_bounds_access(idx, pos) IN
    IF oob.kind # "NoError" THEN [err |-> oob, memory |-> mem]
    ELSE IF ~InTape(idx) THEN [err |-> IndexPanic, memory |-> mem]
    ELSE IF Cell(mem, idx) - 1 < I8_MIN
         THEN [err |-> mem_cell_err("MemCellValueUnderflow", idx, pos), memory |-> mem]
         ELSE [err |-> NoError, memory |-> Store(mem, idx, Cell(mem, idx) - 1)]

\* yields the error and the characters printed
put_checked(mem, idx, pos) ==
    LET oob == check_out_of_bounds_access(idx, pos) IN
    IF oob.kind # "NoError" THEN [err |-> oob, out |-> <<>>]
    ELSE IF ~InTape(idx) THEN [err |-> IndexPanic, out |-> <<>>]
    ELSE [err |-> NoError, out |-> <<AsU8(Cell(mem, idx))>>]

\* a get_checked that reads standard input first and checks the pointer after
get_checked_read_first(mem, idx, pos, c) ==
    LET oob == check_out_of_bounds_access(idx, pos) IN
    IF ~c.some
    THEN [err |-> pos_err("IOError", pos), memory |-> mem, read |-> TRUE]
    ELSE IF oob.kind # "NoError" THEN [err |-> oob, memory |-> mem, read |-> TRUE]
    ELSE IF ~InTape(idx) THEN [err |-> IndexPanic, memory |-> mem, read |-> TRUE]
    ELSE [err |-> NoError, memory |-> Store(mem, idx, c.value), read |-> TRUE]

\* `c` is what get_one_byte_from_stdin returned; `read` tells whether it was called
get_checked(mem, idx, pos, c) ==
    LET oob == check_out_of_bounds_access(idx, pos) IN
    IF oob.kind # "NoError" THEN [err |-> oob, memory |-> mem, read |-> FALSE]
    ELSE IF ~c.some
    THEN [err |-> pos_err("IOError", pos), memory |-> mem, read |-> TRUE]
    ELSE IF ~InTape(idx) THEN [err |-> IndexPanic, memory |-> mem, read |-> TRUE]
    ELSE [err |-> NoError, memory |-> Store(mem, idx, c.value), read |-> TRUE]

----------------------------------------------------------------------------
(* Loop resolution *)

Min(S) == CHOOSE x \in S : \A y \in S : x <= y

\* script.split_at(cursor).1.find(']'): the offset of the first `]` at or
\* after the cursor, None when there is none
find_loop_end(s, cursor) ==
    LET hits == {o \in 0..(Len(s) - cursor - 1) : ByteAt(s, cursor + o) = "]"} IN
    IF hits = {} THEN None ELSE Some(Min(hits))

\* Textual bracket matching, counting depth.
RECURSIVE scan_forward(_, _, _)
\* the index of the `]` that closes depth `d`, scanning from index i
scan_forward(s, i, d) ==
    IF i >= Len(s) THEN None
    ELSE IF ByteAt(s, i) = "[" THEN scan_forward(s, i + 1, d + 1)
    ELSE IF ByteAt(s, i) = "]"
         THEN IF d = 1 THEN Some(i) ELSE scan_forward(s, i + 1, d - 1)
    ELSE scan_forward(s, i + 1, d)

RECURSIVE scan_backward(_, _, _)
\* the index of the `[` that opens depth `d`, scanning down from index i
scan_backward(s, i, d) ==
    IF i < 0 THEN None
    ELSE IF ByteAt(s, i) = "]" THEN scan_backward(s, i - 1, d + 1)
    ELSE IF ByteAt(s, i) = "["
         THEN IF d = 1 THEN Some(i) ELSE scan_backward(s, i - 1, d - 1)
    ELSE scan_backward(s, i - 1, d)

\* the `]` matching the `[` at index i, and the `[` matching the `]` at index i
matching_end(s, i) == scan_forward(s, i + 1, 1)

matching_begin(s, i) == scan_backward(s, i - 1, 1)

\* a scan that counts depth where find(']') does not
skip_loop_depth_counted(s, cursor) ==
    LET e == matching_end(s, cursor) IN
    IF e.some THEN e.value ELSE Len(s)

\* the cursor the zero branch of `[` leaves, before the loop's `+= 1`
skip_loop(s, cursor) ==
    LET offset == find_loop_end(s, cursor) IN
    IF offset.some THEN cursor + offset.value ELSE Len(s)

\* a `[` arm that reports a zero-cell `[` with no `]` after it as an error
loop_begin_unterminated_error(mem, idx, stack, s, pos) ==
    LET oob == check_out_of_bounds_access(idx, pos) IN
    IF oob.kind # "NoError" THEN [err |-> oob, cycle_stack |-> stack, script_cursor |-> pos]
    ELSE IF ~InTape(idx) THEN [err |-> IndexPanic, cycle_stack |-> stack, script_cursor |-> pos]
    ELSE IF Cell(mem, idx) # 0
         THEN [err |-> NoError, cycle_stack |-> Append(stack, pos), script_cursor |-> pos]
    ELSE IF ~find_loop_end(s, pos).some
         THEN [err |-> pos_err("UnexpectedCycleEnd", pos), cycle_stack |-> stack,
               script_cursor |-> pos]
         ELSE [err |-> NoError, cycle_stack |-> stack, script_cursor |-> skip_loop(s, pos)]

\* a `[` arm that pushes the position after its own: push(script_cursor + 1)
loop_begin_pushes_next(mem, idx, stack, s, pos) ==
    LET oob == check_out_of_bounds_access(idx, pos) IN
    IF oob.kind # "NoError" THEN [err |-> oob, cycle_stack |-> stack, script_cursor |-> pos]
    ELSE IF ~InTape(idx) THEN [err |-> IndexPanic, cycle_stack |-> stack, script_cursor |-> pos]
    ELSE IF Cell(mem, idx) # 0
         THEN [err |-> NoError, cycle_stack |-> Append(stack, pos + 1), script_cursor |-> pos]
         ELSE [err |-> NoError, cycle_stack |-> stack, script_cursor |-> skip_loop(s, pos)]

\* a `[` arm that pushes its position before it tests the cell
loop_begin_pushes_first(mem, idx, stack, s, pos) ==
    LET oob == check_out_of_bounds_access(idx, pos) IN
    IF oob.kind # "NoError" THEN [err |-> oob, cycle_stack |-> stack, script_cursor |-> pos]
    ELSE IF ~InTape(idx) THEN [err |-> IndexPanic, cycle_stack |-> stack, script_cursor |-> pos]
    ELSE IF Cell(mem, idx) # 0
         THEN [err |-> NoError, cycle_stack |-> Append(stack, pos), script_cursor |-> pos]
         ELSE [err |-> NoError, cycle_stack |-> Append(stack, pos),
               script_cursor |-> skip_loop(s, pos)]

\* the `[` arm: the error it returns, and the stack and cursor it leaves
loop_begin(mem, idx, stack, s, pos) ==
    LET oob == check_out_of_bounds_access(idx, pos) IN
    IF oob.kind # "NoError" THEN [err |-> oob, cycle_stack |-> stack, script_cursor |-> pos]
    ELSE IF ~InTape(idx) THEN [err |-> IndexPanic, cycle_stack |-> stack, script_cursor |-> pos]
    ELSE IF Cell(mem, idx) # 0
         THEN [err |-> NoError, cycle_stack |-> Append(stack, pos), script_cursor |-> pos]
         ELSE [err |-> NoError, cycle_stack |-> stack, script_cursor |-> skip_loop(s, pos)]

\* a `]` arm that reads the top of the stack (last) and does not pop it
loop_end_without_pop(stack, pos, oc) ==
    IF stack # <<>>
    THEN LET top == stack[Len(stack)] IN
         IF oc /\ top = 0
         THEN [err |-> [kind |-> "PanicSubtractOverflow"], cycle_stack |-> stack,
               script_cursor |-> pos]
         ELSE [err |-> NoError, cycle_stack |-> stack, script_cursor |-> top - 1]
    ELSE [err |-> pos_err("UnexpectedCycleEnd", pos), cycle_stack |-> stack,
          script_cursor |-> pos]

\* a `]` arm that takes the oldest entry of the stack (remove(0)), not the newest
loop_end_pops_bottom(stack, pos, oc) ==
    IF stack # <<>>
    THEN LET bottom == stack[1] IN
         IF oc /\ bottom = 0
         THEN [err |-> [kind |-> "PanicSubtractOverflow"], cycle_stack |-> Tail(stack),
               script_cursor |-> pos]
         ELSE [err |-> NoError, cycle_stack |-> Tail(stack), script_cursor |-> bottom - 1]
    ELSE [err |-> pos_err("UnexpectedCycleEnd", pos), cycle_stack |-> stack,
          script_cursor |-> pos]

\* the `]` arm; `oc` tells whether `- 1` is checked for overflow
loop_end(stack, pos, oc) ==
    IF stack # <<>>
    THEN LET top == stack[Len(stack)]
             popped == SubSeq(stack, 1, Len(stack) - 1)
         IN
         IF oc /\ top = 0
         THEN [err |-> [kind |-> "PanicSubtractOverflow"], cycle_stack |-> popped,
               script_cursor |-> pos]
         ELSE [err |-> NoError, cycle_stack |-> popped, script_cursor |-> top - 1]
    ELSE [err |-> pos_err("UnexpectedCycleEnd", pos), cycle_stack |-> stack,
          script_cursor |-> pos]

\* self.mem_cell_index += 1
move_right(idx, oc) ==
    IF oc /\ idx = -1
    THEN [err |-> [kind |-> "PanicAddOverflow"], mem_cell_index |-> idx]
    ELSE [err |-> NoError, mem_cell_index |-> idx + 1]

\* self.mem_cell_index -= 1
move_left(idx, oc) ==
    IF oc /\ idx = 0
    THEN [err |-> [kind |-> "PanicSubtractOverflow"], mem_cell_index |-> idx]
    ELSE [err |-> NoError, mem_cell_index |-> idx - 1]

Panics == {"PanicIndexOutOfBounds", "PanicSubtractOverflow", "PanicAddOverflow"}

----------------------------------------------------------------------------
(* The reference interpreter: the engine's dispatch loop with the loop     *)
(* stack replaced by textual bracket matching.  A zero-cell `[` continues  *)
(* just after its depth-counted matching `]`, a `]` returns to its         *)
(* matching `[`.  Every other instruction is the engine's.                 *)

Count(s, c, k) == Cardinality({i \in 1..k : s[i] = c})

\* the brackets of s are well nested
Balanced(s) ==
    /\ Count(s, "[", Len(s)) = Count(s, "]", Len(s))
    /\ \A k \in {i \in 1..Len(s) : s[i] = "]"} : Count(s, "]", k) <= Count(s, "[", k)

\* the reference interpreter after an instruction that returned `err` and left
\* `mem`, `idx` and the cursor `cursor`
ref_outcome(r, s, err, mem, idx, cursor) ==
    IF err.kind = "NoError"
    THEN [r EXCEPT !.memory = mem, !.mem_cell_index = idx,
                   !.script_cursor = cursor + 1,
                   !.status = IF UsizeGe(cursor + 1, Len(s)) THEN "Succeeded"
                              ELSE "Running"]
    ELSE IF err.kind \in Panics THEN [r EXCEPT !.status = "Panicked"]
    ELSE [r EXCEPT !.status = "Failed", !.error = err]

\* one iteration of the reference interpreter's loop; `c` is what `,` reads
ref_dispatch(r, s, c, oc) ==
    LET mem == r.memory
        idx == r.mem_cell_index
        pos == r.script_cursor
    IN
    IF UsizeGe(pos, Len(s)) THEN [r EXCEPT !.status = "Panicked"]
    ELSE CASE ByteAt(s, pos) = ">" ->
                LET res == move_right(idx, oc) IN
                ref_outcome(r, s, res.err, mem, res.mem_cell_index, pos)
           [] ByteAt(s, pos) = "<" ->
                LET res == move_left(idx, oc) IN
                ref_outcome(r, s, res.err, mem, res.mem_cell_index, pos)
           [] ByteAt(s, pos) = "+" ->
                LET res == inc_checked(mem, idx, pos) IN
                ref_outcome(r, s, res.err, res.memory, idx, pos)
           [] ByteAt(s, pos) = "-" ->
                LET res == dec_checked(mem, idx, pos) IN
                ref_outcome(r, s, res.err, res.memory, idx, pos)
           [] ByteAt(s, pos) = "." ->
                LET res == put_checked(mem, idx, pos) IN
                ref_outcome(r, s, res.err, mem, idx, pos)
           [] ByteAt(s, pos) = "," ->
                LET res == get_checked(mem, idx, pos, c) IN
                ref_outcome(r, s, res.err, res.memory, idx, pos)
           [] ByteAt(s, pos) = "[" ->
                LET oob == check_out_of_bounds_access(idx, pos)
                    e == matching_end(s, pos)
                IN
                IF oob.kind # "NoError" THEN ref_outcome(r, s, oob, mem, idx, pos)
                ELSE IF Cell(mem, idx) # 0 THEN ref_outcome(r, s, NoError, mem, idx, pos)
                ELSE ref_outcome(r, s, NoError, mem, idx,
                                 IF e.some THEN e.value ELSE Len(s))
           [] ByteAt(s, pos) = "]" ->
                LET b == matching_begin(s, pos) IN
                IF b.some THEN ref_outcome(r, s, NoError, mem, idx, b.value - 1)
                ELSE ref_outcome(r, s, pos_err("UnexpectedCycleEnd", pos), mem, idx, pos)
           [] OTHER -> ref_outcome(r, s, NoError, mem, idx, pos)

\* the reference interpreter moves with the engine while it is running
RefStep(c) ==
    ref' = IF ref.status = "Running"
           THEN ref_dispatch(ref, script, c, overflow_checks)
           ELSE ref

----------------------------------------------------------------------------
(* A second InterpreterContext, held as a record of its four fields and of *)
(* the state of its run.  It is run beside the engine when the engine runs *)
(* a script again from a tape at its initial values: it starts as          *)
(* InterpreterContext::new() leaves it and reads what the engine reads.    *)

\* InterpreterContext::new() followed by the cursor reset of execute_from_start
new_context ==
    [memory |-> ZeroTape, mem_cell_index |-> 0, cycle_stack |-> <<>>,
     script_cursor |-> 0, status |-> "Running", error |-> NoError]

\* no second context is run
NoTwin ==
    [memory |-> ZeroTape, mem_cell_index |-> 0, cycle_stack |-> <<>>,
     script_cursor |-> 0, status |-> "Off", error |-> NoError]

\* the context after a `match` arm that returned `err` and left `mem`, `idx`,
\* `stack` and the cursor `cursor`
execute_outcome(t, s, err, mem, idx, stack, cursor) ==
    IF err.kind = "NoError"
    THEN [t EXCEPT !.memory = mem, !.mem_cell_index = idx, !.cycle_stack = stack,
                   !.script_cursor = cursor + 1,
                   !.status = IF UsizeGe(cursor + 1, Len(s)) THEN "Succeeded"
                              ELSE "Running"]
    ELSE IF err.kind \in Panics
    THEN [t EXCEPT !.memory = mem, !.mem_cell_index = idx, !.cycle_stack = stack,
                   !.status = "Panicked"]
    ELSE [t EXCEPT !.memory = mem, !.mem_cell_index = idx, !.cycle_stack = stack,
                   !.status = "Failed", !.error = err]

\* one iteration of the loop of execute on the context t; `c` is what `,` reads
execute_step(t, s, c, oc) ==
    LET mem == t.memory
        idx == t.mem_cell_index
        stack == t.cycle_stack
        pos == t.script_cursor
    IN
    IF UsizeGe(pos, Len(s)) THEN [t EXCEPT !.status = "Panicked"]
    ELSE CASE ByteAt(s, pos) = ">" ->
                LET res == move_right(idx, oc) IN
                execute_outcome(t, s, res.err, mem, res.mem_cell_index, stack, pos)
           [] ByteAt(s, pos) = "<" ->
                LET res == move_left(idx, oc) IN
                execute_outcome(t, s, res.err, mem, res.mem_cell_index, stack, pos)
           [] ByteAt(s, pos) = "+" ->
                LET res == inc_checked(mem, idx, pos) IN
                execute_outcome(t, s, res.err, res.memory, idx, stack, pos)
           [] ByteAt(s, pos) = "-" ->
                LET res == dec_checked(mem, idx, pos) IN
                execute_outcome(t, s, res.err, res.memory, idx, stack, pos)
           [] ByteAt(s, pos) = "." ->
                LET res == put_checked(mem, idx, pos) IN
                execute_outcome(t, s, res.err, mem, idx, stack, pos)
           [] ByteAt(s, pos) = "," ->
                LET res == get_checked(mem, idx, pos, c) IN
                execute_outcome(t, s, res.err, res.memory, idx, stack, pos)
           [] ByteAt(s, pos) = "[" ->
                LET res == loop_begin(mem, idx, stack, s, pos) IN
                execute_outcome(t, s, res.err, mem, idx, res.cycle_stack,
                                res.script_cursor)
           [] ByteAt(s, pos) = "]" ->
                LET res == loop_end(stack, pos, oc) IN
                execute_outcome(t, s, res.err, mem, idx, res.cycle_stack,
                                res.script_cursor)
           [] OTHER -> execute_outcome(t, s, NoError, mem, idx, stack, pos)

\* the second context moves with the engine while it is running
TwinStep(c) ==
    twin' = IF twin.status = "Running"
            THEN execute_step(twin, script, c, overflow_checks)
            ELSE twin

\* the second context is started when the engine runs the script of its last
\* run again with every cell and the cell pointer at their initial values
StartTwin(s) ==
    twin' = IF runs >= 1 /\ s = script /\ memory = ZeroTape /\ mem_cell_index = 0
            THEN new_context
            ELSE NoTwin

----------------------------------------------------------------------------
(* The engine *)

\* InterpreterContext::new(), in a build with or without overflow checks
Init ==
    /\ memory = ZeroTape
    /\ mem_cell_index = 0
    /\ cycle_stack = <<>>
    /\ script_cursor = 0
    /\ script = <<>>
    /\ status = "Idle"
    /\ error = NoError
    /\ overflow_checks \in BOOLEAN
    /\ stdout = <<>>
    /\ stdin_taken = 0
    /\ runs = 0
    /\ stdin_last = None
    /\ ref = [memory |-> ZeroTape, mem_cell_index |-> 0, script_cursor |-> 0,
              status |-> "Idle", error |-> NoError]
    /\ twin = NoTwin

\* the scripts the caller may hand to execute_from_start
ScriptChoices == IF runs = 0 THEN Scripts ELSE RerunScripts(script)

\* an execute_from_start that also empties the loop stack
ExecuteFromStart_new_stack(s) ==
    /\ status \in {"Idle", "Succeeded", "Failed"}
    /\ runs < MaxRuns
    /\ script' = s
    /\ script_cursor' = 0
    /\ cycle_stack' = <<>>
    /\ status' = "Running"
    /\ error' = NoError
    /\ runs' = runs + 1
    /\ ref' = [memory |-> memory, mem_cell_index |-> mem_cell_index,
               script_cursor |-> 0, status |-> "Running", error |-> NoError]
    /\ StartTwin(s)
    /\ UNCHANGED <<memory, mem_cell_index, overflow_checks, stdout, stdin_taken,
                   stdin_last>>

\* execute_from_start(script): the cursor is reset and execute begins
ExecuteFromStart(s) ==
    /\ status \in {"Idle", "Succeeded", "Failed"}
    /\ runs < MaxRuns
    /\ script' = s
    /\ script_cursor' = 0
    /\ status' = "Running"
    /\ error' = NoError
    /\ runs' = runs + 1
    /\ ref' = [memory |-> memory, mem_cell_index |-> mem_cell_index,
               script_cursor |-> 0, status |-> "Running", error |-> NoError]
    /\ StartTwin(s)
    /\ UNCHANGED <<memory, mem_cell_index, cycle_stack, overflow_checks, stdout,
                   stdin_taken, stdin_last>>

\* the loop of execute is about to read the byte under the cursor
InScript ==
    /\ status = "Running"
    /\ ~UsizeGe(script_cursor, Len(script))

Dispatching(b) == InScript /\ ByteAt(script, script_cursor) = b

\* the end of one iteration whose `match` arm returned `err` and left the cursor
\* at `cursor`: `?` returns an Err, a panic unwinds, and otherwise lines 130-133
\* move the cursor on and end the loop at the end of the script
Outcome(err, cursor) ==
    IF err.kind = "NoError"
    THEN /\ script_cursor' = cursor + 1
         /\ status' = IF UsizeGe(cursor + 1, Len(script)) THEN "Succeeded" ELSE "Running"
         /\ error' = NoError
    ELSE IF err.kind \in Panics
    THEN /\ status' = "Panicked"
         /\ UNCHANGED <<error, script_cursor>>
    ELSE /\ status' = "Failed"
         /\ error' = err
         /\ UNCHANGED script_cursor

\* script.as_bytes()[self.script_cursor] with the cursor at or past the end
ReadPastEnd ==
    /\ status = "Running"
    /\ UsizeGe(script_cursor, Len(script))
    /\ Outcome(IndexPanic, script_cursor)
    /\ RefStep(None)
    /\ TwinStep(None)
    /\ UNCHANGED <<memory, mem_cell_index, cycle_stack, script, overflow_checks,
                   stdout, stdin_taken, runs, stdin_last>>

\* b'>' => self.mem_cell_index += 1
MoveRight ==
    /\ Dispatching(">")
    /\ LET res == move_right(mem_cell_index, overflow_checks) IN
       /\ mem_cell_index' = res.mem_cell_index
       /\ Outcome(res.err, script_cursor)
    /\ RefStep(None)
    /\ TwinStep(None)
    /\ UNCHANGED <<memory, cycle_stack, script, overflow_checks, stdout,
                   stdin_taken, runs, stdin_last>>

\* b'<' => self.mem_cell_index -= 1
MoveLeft ==
    /\ Dispatching("<")
    /\ LET res == move_left(mem_cell_index, overflow_checks) IN
       /\ mem_cell_index' = res.mem_cell_index
       /\ Outcome(res.err, script_cursor)
    /\ RefStep(None)
    /\ TwinStep(None)
    /\ UNCHANGED <<memory, cycle_stack, script, overflow_checks, stdout,
                   stdin_taken, runs, stdin_last>>

\* b'+' => self.inc_checked()?
Inc ==
    /\ Dispatching("+")
    /\ LET res == inc_checked(memory, mem_cell_index, script_cursor) IN
       /\ memory' = res.memory
       /\ Outcome(res.err, script_cursor)
    /\ RefStep(None)
    /\ TwinStep(None)
    /\ UNCHANGED <<mem_cell_index, cycle_stack, script, overflow_checks, stdout,
                   stdin_taken, runs, stdin_last>>

\* b'-' => self.dec_checked()?
Dec ==
    /\ Dispatching("-")
    /\ LET res == dec_checked(memory, mem_cell_index, script_cursor) IN
       /\ memory' = res.memory
       /\ Outcome(res.err, script_cursor)
    /\ RefStep(None)
    /\ TwinStep(None)
    /\ UNCHANGED <<mem_cell_index, cycle_stack, script, overflow_checks, stdout,
                   stdin_taken, runs, stdin_last>>

\* b'.' => self.put_checked()?  (the output recorded is capped at MaxOut characters)
Put ==
    /\ Dispatching(".")
    /\ Len(stdout) < MaxOut
    /\ LET res == put_checked(memory, mem_cell_index, script_cursor) IN
       /\ stdout' = stdout \o res.out
       /\ Outcome(res.err, script_cursor)
    /\ RefStep(None)
    /\ TwinStep(None)
    /\ UNCHANGED <<memory, mem_cell_index, cycle_stack, script, overflow_checks,
                   stdin_taken, runs, stdin_last>>

\* b',' => self.get_checked()?
\* b',' => self.get_checked()? with standard input holding a byte of `bytes`
GetFrom(bytes) ==
    /\ Dispatching(",")
    /\ \E r \in stdin_next(bytes) :
          LET c == map_as_i8(r)
              res == get_checked(memory, mem_cell_index, script_cursor, c)
          IN
          /\ memory' = res.memory
          /\ stdin_taken' = IF res.read /\ c.some THEN stdin_taken + 1 ELSE stdin_taken
          /\ stdin_last' = IF res.read THEN r ELSE stdin_last
          /\ Outcome(res.err, script_cursor)
          /\ RefStep(c)
          /\ TwinStep(c)
    /\ UNCHANGED <<mem_cell_index, cycle_stack, script, overflow_checks, stdout, runs>>

Get == GetFrom(StdinBytes(stdin_taken))

\* b'[' => { ... }
LoopBegin ==
    /\ Dispatching("[")
    /\ LET res == loop_begin(memory, mem_cell_index, cycle_stack, script, script_cursor) IN
       /\ cycle_stack' = res.cycle_stack
       /\ Outcome(res.err, res.script_cursor)
    /\ RefStep(None)
    /\ TwinStep(None)
    /\ UNCHANGED <<memory, mem_cell_index, script, overflow_checks, stdout,
                   stdin_taken, runs, stdin_last>>

\* b']' => { ... }
LoopEnd ==
    /\ Dispatching("]")
    /\ LET res == loop_end(cycle_stack, script_cursor, overflow_checks) IN
       /\ cycle_stack' = res.cycle_stack
       /\ Outcome(res.err, res.script_cursor)
    /\ RefStep(None)
    /\ TwinStep(None)
    /\ UNCHANGED <<memory, mem_cell_index, script, overflow_checks, stdout,
                   stdin_taken, runs, stdin_last>>

\* a `_` arm that rejects the byte: _ => return Err(...)
Other_rejects ==
    /\ InScript
    /\ ByteAt(script, script_cursor) \notin Instructions
    /\ Outcome(pos_err("UnexpectedCycleEnd", script_cursor), script_cursor)
    /\ RefStep(None)
    /\ TwinStep(None)
    /\ UNCHANGED <<memory, mem_cell_index, cycle_stack, script, overflow_checks,
                   stdout, stdin_taken, runs, stdin_last>>

\* _ => {}
Other ==
    /\ InScript
    /\ ByteAt(script, script_cursor) \notin Instructions
    /\ Outcome(NoError, script_cursor)
    /\ RefStep(None)
    /\ TwinStep(None)
    /\ UNCHANGED <<memory, mem_cell_index, cycle_stack, script, overflow_checks,
                   stdout, stdin_taken, runs, stdin_last>>

\* the engine has stopped and the reference interpreter runs on alone
RefOnly ==
    /\ status \in {"Succeeded", "Failed", "Panicked"}
    /\ ref.status = "Running"
    /\ \E c \in (IF ByteAt(script, ref.script_cursor) = ","
                 THEN get_one_byte_from_stdin(stdin_taken) ELSE {None}) :
          ref' = ref_dispatch(ref, script, c, overflow_checks)
    /\ UNCHANGED <<memory, mem_cell_index, cycle_stack, script_cursor, script, status,
                   error, overflow_checks, stdout, stdin_taken, runs, stdin_last, twin>>

Next ==
    \/ \E s \in ScriptChoices : ExecuteFromStart(s)
    \/ ReadPastEnd
    \/ MoveRight
    \/ MoveLeft
    \/ Inc
    \/ Dec
    \/ Put
    \/ Get
    \/ LoopBegin
    \/ LoopEnd
    \/ Other
    \/ RefOnly

Spec == Init /\ [][Next]_vars

----------------------------------------------------------------------------
(* Repeated runs from a tape put back to its initial values.  Between two  *)
(* runs the caller puts every cell and the cell pointer back to what       *)
(* InterpreterContext::new() gives them and leaves cycle_stack alone, then *)
(* runs the same script again.                                             *)

\* memory and mem_cell_index are given the values of InterpreterContext::new()
ResetTape ==
    /\ status \in {"Succeeded", "Failed"}
    /\ memory # ZeroTape \/ mem_cell_index # 0
    /\ memory' = ZeroTape
    /\ mem_cell_index' = 0
    /\ twin' = NoTwin
    /\ UNCHANGED <<cycle_stack, script_cursor, script, status, error, overflow_checks,
                   stdout, stdin_taken, runs, stdin_last, ref>>

\* the first script is any script; a used instance runs its script again once
\* its tape is at its initial values
RoundTripChoices ==
    IF runs = 0 THEN Scripts
    ELSE IF memory = ZeroTape /\ mem_cell_index = 0 THEN {script}
    ELSE {}

NextRoundTrip ==
    \/ \E s \in RoundTripChoices : ExecuteFromStart(s)
    \/ ResetTape
    \/ ReadPastEnd
    \/ MoveRight
    \/ MoveLeft
    \/ Inc
    \/ Dec
    \/ Put
    \/ Get
    \/ LoopBegin
    \/ LoopEnd
    \/ Other

SpecRoundTrip == Init /\ [][NextRoundTrip]_vars

----------------------------------------------------------------------------
(* Vocabulary of the claims *)

\* the run in progress, or just ended, is the first one of the instance
Fresh == runs = 1

Ended == status \in {"Succeeded", "Failed", "Panicked"}

\* the engine's state, without its input and output
Engine == <<memory, mem_cell_index, cycle_stack, script_cursor>>

InRange(v) == I8_MIN <= v /\ v <= I8_MAX

\* the bracket depth after the first k bytes of s
Depth(s, k) == Count(s, "[", k) - Count(s, "]", k)

\* balanced brackets, and no bracket inside a loop body
Flat(s) == Balanced(s) /\ \A k \in {i \in 1..Len(s) : s[i] = "["} : Depth(s, k) <= 1

PlusMinus(s) == \A i \in 1..Len(s) : s[i] \in {"+", "-"}

\* the sum of the first k instructions of a `+`/`-` script
PrefixSum(s, k) == Count(s, "+", k) - Count(s, "-", k)

\* the index of the first `]` at or after index i; Len(s) when there is none
FirstEndFrom(s, i) ==
    LET ends == {j \in i..(Len(s) - 1) : ByteAt(s, j) = "]"} IN
    IF ends = {} THEN Len(s) ELSE CHOOSE j \in ends : \A k \in ends : j <= k

----------------------------------------------------------------------------
(* C1.  For every script with well-nested brackets run on a fresh          *)
(* instance, the engine's outcome (success, or error kind and position),   *)
(* final tape and final cell pointer equal those of the reference          *)
(* interpreter, whose loops are matched textually with depth counting.     *)
(* The statement fails: the zero branch of `[` stops at the first `]`.     *)
C1_LoopsMatchReference ==
    (Fresh /\ Balanced(script) /\ Ended /\ ref.status # "Running") =>
        /\ status = ref.status
        /\ error.kind = ref.error.kind
        /\ (error.kind # "NoError" => error.script_pos = ref.error.script_pos)
        /\ memory = ref.memory
        /\ mem_cell_index = ref.mem_cell_index

----------------------------------------------------------------------------
(* C2.  For a script with balanced brackets and no bracket inside a loop   *)
(* body, run on a fresh instance: a `[` on a non-zero cell enters the body *)
(* and records itself, a `[` on a zero cell continues just after its own   *)
(* `]`, a `]` returns to its own `[` for the next test, the loop stack     *)
(* never holds more than one entry, and a successful run ends with an      *)
(* empty loop stack.                                                       *)
C2_Step ==
    (runs' = 1 /\ Flat(script')) =>
        /\ Len(cycle_stack') <= 1
        /\ (status' = "Succeeded" => cycle_stack' = <<>>)
        /\ (Dispatching("[") /\ InTape(mem_cell_index) =>
              IF Cell(memory, mem_cell_index) # 0
              THEN /\ script_cursor' = script_cursor + 1
                   /\ cycle_stack' = <<script_cursor>>
              ELSE /\ script_cursor' = matching_end(script, script_cursor).value + 1
                   /\ cycle_stack' = <<>>)
        /\ (Dispatching("]") =>
              /\ cycle_stack = <<matching_begin(script, script_cursor).value>>
              /\ script_cursor' = matching_begin(script, script_cursor).value
              /\ status' = "Running"
              /\ cycle_stack' = <<>>)

C2_FlatLoops == [][C2_Step]_vars

\* `+[-]` has run to its end: success, cell 0 is 0, the loop stack is empty
C2_Witness ==
    /\ Fresh
    /\ script = <<"+", "[", "-", "]">>
    /\ status = "Succeeded"
    /\ Cell(memory, 0) = 0
    /\ cycle_stack = <<>>

----------------------------------------------------------------------------
(* C3.  For every script made only of `+` and `-`, run on a fresh          *)
(* instance: the run succeeds iff every prefix sum stays in [-128, 127],   *)
(* and then cell 0 holds the net sum; otherwise it fails at the first      *)
(* instruction whose prefix sum leaves the range, with                     *)
(* MemCellValueOverflow when the cell is 127 and MemCellValueUnderflow     *)
(* when it is -128; no cell ever leaves the range.                         *)
(* The statement fails on the empty script, which panics (see C7).         *)
C3_CheckedArithmetic ==
    /\ \A i \in DOMAIN memory : InRange(memory[i])
    /\ (Fresh /\ PlusMinus(script) /\ Ended) =>
          LET bad == {k \in 1..Len(script) : ~InRange(PrefixSum(script, k))} IN
          IF bad = {}
          THEN /\ status = "Succeeded"
               /\ Cell(memory, 0) = PrefixSum(script, Len(script))
          ELSE LET k == Min(bad) IN
               /\ status = "Failed"
               /\ error.script_pos = k - 1
               /\ script_cursor = k - 1
               /\ Cell(memory, 0) = PrefixSum(script, k - 1)
               /\ Cell(memory, 0) \in {I8_MAX, I8_MIN}
               /\ error.kind = IF Cell(memory, 0) = I8_MAX
                               THEN "MemCellValueOverflow"
                               ELSE "MemCellValueUnderflow"

----------------------------------------------------------------------------
(* C4.  `>` and `<` never fail, whatever the pointer: the pointer moves by *)
(* one and an out-of-range pointer is only detected by the next cell       *)
(* operation (`+`, `-`, `.`, `,`, `[`), which fails with                   *)
(* MemCellAccessOutOfBounds and leaves the tape as it is; no cell outside  *)
(* [0, MAX_MEM_CELL_COUNT) is ever written.                                *)
(* The statement fails: with overflow checks `<` at pointer 0 panics.      *)
C4_Step ==
    /\ (Dispatching(">") =>
          status' \in {"Running", "Succeeded"} /\ mem_cell_index' = mem_cell_index + 1)
    /\ (Dispatching("<") =>
          status' \in {"Running", "Succeeded"} /\ mem_cell_index' = mem_cell_index - 1)
    /\ (InScript /\ ByteAt(script, script_cursor) \in CellOps /\ ~InTape(mem_cell_index) =>
          /\ status' = "Failed"
          /\ error' = mem_cell_err("MemCellAccessOutOfBounds", mem_cell_index, script_cursor)
          /\ memory' = memory)
    /\ DOMAIN memory' \subseteq 0..(MAX_MEM_CELL_COUNT - 1)

C4_MovesNeverFail == [][C4_Step]_vars

----------------------------------------------------------------------------
(* C5.  A `]` dispatched with an empty loop stack fails with               *)
(* UnexpectedCycleEnd at the position of that `]`, whatever the tape and   *)
(* the pointer are; a `]` dispatched with a non-empty loop stack never     *)
(* fails.                                                                  *)
(* The statement fails: with overflow checks a `]` that pops position 0    *)
(* panics in `pop().unwrap() - 1`.                                         *)
C5_Step ==
    Dispatching("]") =>
        IF cycle_stack = <<>>
        THEN /\ status' = "Failed"
             /\ error' = pos_err("UnexpectedCycleEnd", script_cursor)
        ELSE status' \in {"Running", "Succeeded"}

C5_LoopEndOutcome == [][C5_Step]_vars

----------------------------------------------------------------------------
(* C6.  An instruction whose dispatch returns an error leaves the tape,    *)
(* the cell pointer, the loop stack and the cursor as they were when it    *)
(* was dispatched: the cursor stays on it, a failing `+` leaves the cell   *)
(* at 127, a failing `-` at -128, a failing `,` leaves the cell unchanged. *)
(* After the error no instruction is dispatched: the engine's state        *)
(* changes only when the caller starts another run.                        *)
C6_Step ==
    /\ (status = "Running" /\ status' = "Failed" =>
          /\ Engine' = Engine
          /\ error'.kind # "NoError"
          /\ (ByteAt(script, script_cursor) = "+" /\ InTape(mem_cell_index) =>
                Cell(memory', mem_cell_index') = I8_MAX)
          /\ (ByteAt(script, script_cursor) = "-" /\ InTape(mem_cell_index) =>
                Cell(memory', mem_cell_index') = I8_MIN))
    /\ (status = "Failed" =>
          \/ status' = "Failed" /\ Engine' = Engine /\ error' = error
          \/ runs' = runs + 1)

C6_ErrorsLeaveState == [][C6_Step]_vars

\* a `+` has failed on a cell holding 127, and the cell still holds 127
C6_Witness ==
    /\ status = "Failed"
    /\ error.kind = "MemCellValueOverflow"
    /\ ByteAt(script, script_cursor) = "+"
    /\ Cell(memory, mem_cell_index) = I8_MAX

----------------------------------------------------------------------------
(* C7.  For every script, the empty one included, a run whose cursor is at *)
(* or past the end of the script has ended in success: the script is never *)
(* read at a cursor that is not below its length.                          *)
(* The statement fails: the loop of execute reads the byte under the       *)
(* cursor before it tests the cursor, so the empty script panics.          *)
C7_EndsAtEndOfScript ==
    (status \notin {"Idle", "Running"} /\ UsizeGe(script_cursor, Len(script))) =>
        status = "Succeeded"

----------------------------------------------------------------------------
(* C8.  A dispatch that returns no error and leaves the cursor at or past  *)
(* the end of the script ends the run in success, whatever the loop stack  *)
(* holds: a `[` on a non-zero cell that is the last instruction stays on   *)
(* the stack of the successful run, and a `[` on a zero cell with no `]`   *)
(* at or after it moves the cursor past the end and the run succeeds.      *)
C8_Step ==
    /\ (InScript /\ status' \notin {"Failed", "Panicked"}
            /\ UsizeGe(script_cursor', Len(script)) =>
          status' = "Succeeded")
    /\ (Dispatching("[") /\ InTape(mem_cell_index)
            /\ Cell(memory, mem_cell_index) # 0 /\ script_cursor = Len(script) - 1 =>
          /\ status' = "Succeeded"
          /\ cycle_stack' = Append(cycle_stack, script_cursor))
    /\ (Dispatching("[") /\ InTape(mem_cell_index)
            /\ Cell(memory, mem_cell_index) = 0
            /\ FirstEndFrom(script, script_cursor) = Len(script) =>
          /\ status' = "Succeeded"
          /\ script_cursor' > Len(script)
          /\ cycle_stack' = cycle_stack)

C8_UnterminatedLoopSucceeds == [][C8_Step]_vars

\* a first run has succeeded with a `[` still on the loop stack
C8_Witness ==
    /\ Fresh
    /\ status = "Succeeded"
    /\ cycle_stack # <<>>
    /\ ByteAt(script, cycle_stack[Len(cycle_stack)]) = "["

----------------------------------------------------------------------------
(* C9.  A `[` dispatched with the pointer in range and a zero cell leaves  *)
(* the loop stack unchanged and puts the cursor just after the first `]`   *)
(* at or after it, whatever `[` lie in between: when the skipped loop      *)
(* holds a nested loop, the run resumes just after the inner `]`, not      *)
(* after the matching one.                                                 *)
C9_Step ==
    (Dispatching("[") /\ InTape(mem_cell_index) /\ Cell(memory, mem_cell_index) = 0) =>
        /\ cycle_stack' = cycle_stack
        /\ script_cursor' = FirstEndFrom(script, script_cursor) + 1
        /\ status' \in {"Running", "Succeeded"}
        /\ (FirstEndFrom(script, script_cursor) < Len(script) /\ status' = "Running" =>
              ByteAt(script, script_cursor' - 1) = "]")

C9_SkipToFirstLoopEnd == [][C9_Step]_vars

\* `[[]]` on a zero tape: the outer `[` has put the cursor on the outer `]`
C9_Witness ==
    /\ Fresh
    /\ script = <<"[", "[", "]", "]">>
    /\ status = "Running"
    /\ script_cursor = 3
    /\ cycle_stack = <<>>

----------------------------------------------------------------------------
(* C10.  execute_from_start resets the cursor only: the tape, the cell     *)
(* pointer and the loop stack the previous run left are the state the next *)
(* run starts from, so a `]` of the next run pops an entry an unterminated *)
(* `[` of the previous run left.                                           *)
C10_Step ==
    (runs' = runs + 1) =>
        /\ memory' = memory
        /\ mem_cell_index' = mem_cell_index
        /\ cycle_stack' = cycle_stack
        /\ script_cursor' = 0
        /\ status' = "Running"

C10_RerunKeepsState == [][C10_Step]_vars

\* the second run, of `]` alone, has succeeded: its `]` popped an entry the
\* first run left
C10_Witness ==
    /\ runs = 2
    /\ script = <<"]">>
    /\ status = "Succeeded"
    /\ cycle_stack = <<>>

----------------------------------------------------------------------------
(* The echo script `,.` run once on a fresh instance, standard input       *)
(* holding any byte of 0 .. U8_MAX.                                        *)

EchoScript == <<",", ".">>

EchoStart == status = "Idle" /\ ExecuteFromStart(EchoScript)

GetAnyByte == GetFrom(0..U8_MAX)

NextEcho ==
    \/ EchoStart
    \/ GetAnyByte
    \/ Put

SpecEcho == Init /\ [][NextEcho]_vars

----------------------------------------------------------------------------
----------------------------------------------------------------------------
\* C12: a `,` checks the cell pointer before it reads input.  With the pointer
\* out of range it fails with MemCellAccessOutOfBounds (the spec's
\* CellOutOfBounds) and takes no byte from standard input.  With the pointer in
\* range and no byte to read it fails with IOError (the spec's InputError)
\* carrying the position of the `,`, the tape unchanged.  With a byte to read it
\* stores the byte in the current cell and takes exactly one byte.
C12_Step ==
    Dispatching(",") =>
        IF UsizeGe(mem_cell_index, MAX_MEM_CELL_COUNT)
        THEN /\ status' = "Failed"
             /\ error' = mem_cell_err("MemCellAccessOutOfBounds", mem_cell_index,
                                      script_cursor)
             /\ stdin_taken' = stdin_taken
             /\ stdin_last' = stdin_last
             /\ memory' = memory
        ELSE \/ /\ status' = "Failed"
                /\ error' = pos_err("IOError", script_cursor)
                /\ ~stdin_last'.some
                /\ stdin_taken' = stdin_taken
                /\ memory' = memory
             \/ /\ status' \in {"Running", "Succeeded"}
                /\ stdin_last'.some
                /\ stdin_taken' = stdin_taken + 1
                /\ Cell(memory', mem_cell_index) = AsI8(stdin_last'.value)
                /\ \A i \in (DOMAIN memory \cup DOMAIN memory') \ {mem_cell_index} :
                      Cell(memory', i) = Cell(memory, i)

C12_GetChecksThenReads == [][C12_Step]_vars

\* a `,` beyond the end of the tape has failed, standard input untouched
C12_Witness ==
    /\ status = "Failed"
    /\ error.kind = "MemCellAccessOutOfBounds"
    /\ ByteAt(script, script_cursor) = ","
    /\ mem_cell_index = MAX_MEM_CELL_COUNT
    /\ stdin_taken = 0

----------------------------------------------------------------------------
\* C13: for every input byte b of 0..255 the script `,.` run from a fresh
\* instance stores b read as a signed 8-bit value (b - 256 when b >= 128) in
\* cell 0, touches no other cell, then prints exactly one character, whose
\* code is b, and succeeds.
C13_EchoRoundTrip ==
    (script = EchoScript /\ Fresh /\ stdin_last.some) =>
        LET b == stdin_last.value IN
        /\ Cell(memory, 0) = (IF b >= 128 THEN b - 256 ELSE b)
        /\ DOMAIN memory \subseteq {0}
        /\ mem_cell_index = 0
        /\ stdin_taken = 1
        /\ \/ status = "Running" /\ script_cursor = 1 /\ stdout = <<>> /\ ENABLED Put
           \/ status = "Succeeded" /\ script_cursor = 2 /\ stdout = <<b>>

\* the byte 255 has been read as -1 and printed as the character 255
C13_Witness ==
    /\ script = EchoScript
    /\ Fresh
    /\ status = "Succeeded"
    /\ stdin_last = Some(U8_MAX)
    /\ Cell(memory, 0) = -1
    /\ stdout = <<U8_MAX>>

----------------------------------------------------------------------------
\* C14: dispatching a byte that is none of the eight instructions never fails
\* and moves the cursor on by one; the tape, the cell pointer, the loop stack,
\* standard input and the output are left as they were.
C14_Step ==
    (InScript /\ ByteAt(script, script_cursor) \notin Instructions) =>
        /\ status' \in {"Running", "Succeeded"}
        /\ script_cursor' = script_cursor + 1
        /\ UNCHANGED <<memory, mem_cell_index, cycle_stack, stdin_taken, stdin_last,
                       stdout, error>>

C14_OtherBytesOnlyMoveCursor == [][C14_Step]_vars

\* a byte that is no instruction has been dispatched on a tape already written
C14_Witness ==
    /\ status \in {"Running", "Succeeded"}
    /\ script_cursor >= 1
    /\ script_cursor <= Len(script)
    /\ ByteAt(script, script_cursor - 1) \notin Instructions
    /\ memory # ZeroTape

----------------------------------------------------------------------------
\* C15: for every script whose brackets are balanced, run from a fresh
\* instance, a run that ends in Succeeded ends with an empty loop stack.
C15_BalancedSuccessEmptiesStack ==
    (Fresh /\ Balanced(script) /\ status = "Succeeded") => cycle_stack = <<>>

\* a first run of a balanced script with a loop has succeeded, the tape written
C15_Witness ==
    /\ Fresh
    /\ Balanced(script)
    /\ status = "Succeeded"
    /\ \E i \in 1..Len(script) : script[i] = "["
    /\ ByteAt(script, 0) # "["
    /\ memory # ZeroTape

----------------------------------------------------------------------------
\* C16: in a run from a fresh instance, between dispatches (and once the run
\* has ended), every entry of the loop stack is the index of a `[` that lies
\* strictly before the cursor; when the brackets of the script are balanced,
\* the `]` that textually matches that `[` lies at or after the cursor; and
\* the entries are strictly increasing from the bottom of the stack to its top.
C16_StackEntries ==
    Fresh =>
        \A k \in 1..Len(cycle_stack) :
            LET p == cycle_stack[k] IN
            /\ p \in 0..(Len(script) - 1)
            /\ ByteAt(script, p) = "["
            /\ p < script_cursor
            /\ Balanced(script) =>
                   /\ matching_end(script, p).some
                   /\ matching_end(script, p).value >= script_cursor
            /\ k > 1 => cycle_stack[k - 1] < p

\* a first run of a balanced script is inside two nested loops
C16_Witness ==
    /\ Fresh
    /\ status = "Running"
    /\ Balanced(script)
    /\ Len(cycle_stack) >= 2

----------------------------------------------------------------------------
\* C17: the script position an error carries is the index of the instruction
\* that failed, where the cursor stays; the cell index carried by
\* MemCellAccessOutOfBounds, MemCellValueOverflow and MemCellValueUnderflow
\* (the spec's CellOutOfBounds, CellOverflow, CellUnderflow) is the cell pointer
\* at that moment; the other errors carry a position only.
C17_Step ==
    (status = "Running" /\ status' = "Failed") =>
        /\ error'.script_pos = script_cursor
        /\ script_cursor' = script_cursor
        /\ IF error'.kind \in {"MemCellAccessOutOfBounds", "MemCellValueOverflow",
                               "MemCellValueUnderflow"}
           THEN /\ DOMAIN error' = {"kind", "cell_index", "script_pos"}
                /\ error'.cell_index = mem_cell_index
           ELSE /\ error'.kind \in {"UnexpectedCycleEnd", "IOError"}
                /\ DOMAIN error' = {"kind", "script_pos"}

C17_ErrorContext == [][C17_Step]_vars

\* MAX_MEM_CELL_COUNT `>` then a cell operation: cell index and position are
\* both MAX_MEM_CELL_COUNT
C17_Witness ==
    /\ Fresh
    /\ status = "Failed"
    /\ error = mem_cell_err("MemCellAccessOutOfBounds", MAX_MEM_CELL_COUNT,
                            MAX_MEM_CELL_COUNT)
    /\ mem_cell_index = MAX_MEM_CELL_COUNT
    /\ script_cursor = MAX_MEM_CELL_COUNT

----------------------------------------------------------------------------
\* C18: when `]` is dispatched with a non-empty loop stack, the stack loses
\* exactly its top entry p and the run goes on with the cursor at p, the next
\* instruction dispatched being the one at position p; in a run from a fresh
\* instance position 0 is never on the stack, so p - 1 is never below zero.
\* The statement fails: in a repeated run a `[` at position 0 pushes 0, and
\* with overflow checks the `]` that pops it panics in `pop().unwrap() - 1`.
C18_Step ==
    /\ (Dispatching("]") /\ cycle_stack # <<>>) =>
          /\ cycle_stack' = SubSeq(cycle_stack, 1, Len(cycle_stack) - 1)
          /\ script_cursor' = cycle_stack[Len(cycle_stack)]
          /\ status' \in {"Running", "Succeeded"}
    /\ Fresh => \A k \in 1..Len(cycle_stack) : cycle_stack[k] >= 1

C18_LoopEndReturnsToLoopBegin == [][C18_Step]_vars

----------------------------------------------------------------------------
\* the script holds no `]`
NoLoopEnd(s) == \A i \in 1..Len(s) : s[i] # "]"

\* C19: every dispatch that lets the run go on moves the cursor strictly
\* forward, except a `]` dispatched with a non-empty loop stack; so a run of a
\* script that holds no `]` dispatches at most len(script) instructions, each
\* at a cursor inside the script, and ends Succeeded or Failed; and the run of
\* `+[]` from a fresh instance never ends.
\* The statement fails: the run of the empty script, and with overflow checks
\* a `<` at cell 0, end in a panic, neither Succeeded nor Failed.
C19_Step ==
    /\ (/\ InScript
        /\ ~(ByteAt(script, script_cursor) = "]" /\ cycle_stack # <<>>)
        /\ status' \in {"Running", "Succeeded"}) => script_cursor' > script_cursor
    /\ (status' # "Idle" /\ NoLoopEnd(script')) =>
          /\ status' \in {"Running", "Succeeded", "Failed"}
          /\ status' = "Running" => script_cursor' \in 0..(Len(script') - 1)
    /\ (Fresh' /\ script' = <<"+", "[", "]">>) => status' = "Running"

C19_CursorProgress == [][C19_Step]_vars

----------------------------------------------------------------------------
\* the tape has no cell outside 0 .. MAX_MEM_CELL_COUNT - 1 and every cell
\* holds a value of I8_MIN .. I8_MAX
TapeInRange(mem) ==
    /\ DOMAIN mem \subseteq 0..(MAX_MEM_CELL_COUNT - 1)
    /\ \A i \in DOMAIN mem : mem[i] \in I8_MIN..I8_MAX

\* C20: the tape always has its 1024 cells, each holding a value of -128..127;
\* one dispatch changes at most one cell, the one under the cell pointer, and
\* only `+`, `-` and `,` change it: `>`, `<`, `.`, `[`, `]` (and any other
\* byte) leave the tape as it was; `+`, `-`, `.`, `,` leave the cell pointer
\* and the loop stack as they were.
C20_Step ==
    /\ TapeInRange(memory)
    /\ TapeInRange(memory')
    /\ InScript =>
          /\ \A i \in (DOMAIN memory \cup DOMAIN memory') \ {mem_cell_index} :
                Cell(memory', i) = Cell(memory, i)
          /\ ByteAt(script, script_cursor) \notin {"+", "-", ","} => memory' = memory
          /\ ByteAt(script, script_cursor) \in {"+", "-", ".", ","} =>
                UNCHANGED <<mem_cell_index, cycle_stack>>

C20_TapeFrame == [][C20_Step]_vars

\* two cells have been written, the second one after the pointer moved to it
C20_Witness ==
    /\ mem_cell_index = 1
    /\ Cell(memory, 0) # 0
    /\ Cell(memory, 1) # 0
    /\ stdin_taken >= 1

====
